---- MODULE Spec2Model ----
(***************************************************************************)
(* AsyncVideoWriter of arducam_thread_rec.py: a caller thread (the capture *)
(* loop) that calls start(), write(frame) and stop(), and the background   *)
(* consumer thread(s) running _process_queue, which share one bounded      *)
(* queue.Queue.                                                            *)
(*                                                                         *)
(* Spec     the calling discipline of CameraApp: start() is called once on *)
(*          an instance (toggle_recording builds a fresh writer before     *)
(*          every start), write() and stop() any number of times.          *)
(* FairSpec Spec with a fairly scheduled consumer thread and caller.       *)
(* SpecAny  any sequence of start(), write(), stop() on one instance,      *)
(*          start() on a started instance included.                        *)
(* SpecWriteFail  Spec with sink writes that may raise in the consumer.    *)
(* SpecMT   Spec with write() also called on a second thread.              *)
(* SpecApp  CameraApp.run(): the capture loop, toggle_recording, a         *)
(*          KeyboardInterrupt anywhere in the loop, and cleanup().         *)
(* FairSpecApp  SpecApp with a fairly scheduled consumer and cleanup().    *)
(***************************************************************************)
EXTENDS Integers, Sequences, FiniteSets, TLC

\* ---------------------------------------------------------------- bounds
\* queue_size: the maxsize of queue.Queue (a constructor parameter).
queue_size == 2
\* The number of write() calls explored.
MaxFrames == 4
\* The number of start() calls explored under SpecAny.
MaxStarts == 2
\* The number of stop() calls explored.
MaxStops == 2
\* The number of frames cap.read() returns in a run of CameraApp.
MaxReads == 4
\* The number of 'v' keys (toggle_recording calls) in a run of CameraApp.
MaxToggles == 3

\* Python's None: the value of self.writer / self.thread when unset, and the
\* sentinel stop() puts on the queue. Frames are 1, 2, ... in submission order.
None == 0

ThreadIds == 1..MaxStarts

VARIABLES
    queue,           \* self.queue: the items, oldest first (frames, or None)
    writer,          \* self.writer: None, or the id of the cv2.VideoWriter
    thread,          \* self.thread: None, or the id of the threading.Thread
    is_recording,    \* self.is_recording
    dropped_frames,  \* self.dropped_frames
    pc,              \* where the caller thread is: "idle", or inside stop()
    tpc,             \* per consumer thread: where it is in _process_queue
    tframe,          \* per consumer thread: its local variable frame
    written,         \* the frames handed to writer.write, in order
    released,        \* the sinks on which release() has been called
    reports,         \* the dropped-frame count of every summary stop() printed
    \* history
    calls,           \* number of write() calls so far (the next frame's id - 1)
    starts,          \* number of start() calls so far
    stops,           \* number of stop() calls so far
    accepted,        \* the frames put_nowait accepted, in order
    submitted,       \* write() calls made while phase = "Active"
    phase,           \* Idle / Active / Draining / Closed, as spec.md section 3
    stop_entry,      \* the phase and queue length the last stop() call began in
    opened,          \* the start() calls whose sink opened
    op,              \* the last step taken
    \* a second thread that calls write()
    wpc,             \* "idle", or "put": past the is_recording test of write()
    wframe,          \* the frame that thread is about to put
    mt_frames,       \* history: the frames that thread passed to write()
    \* CameraApp
    async_recorder,  \* self.async_recorder: None, or 1 for the current writer
    is_running,      \* self.is_running
    hw_configured,   \* self.hw_configured
    apc,             \* where the main thread is in run() / cleanup()
    hw_calls,        \* history: calls of apply_stream_active_controls
    attempts,        \* history: start() calls of the last start request
    toggles,         \* history: toggle_recording calls
    reads,           \* history: frames cap.read() returned
    orphans,         \* history: what dropped writer references left behind
    ended            \* history: how the capture loop ended

\* The writer instance, with its history.
ivars == <<queue, writer, thread, is_recording, dropped_frames, pc, tpc, tframe,
           written, released, reports, calls, starts, stops, accepted,
           submitted, phase, stop_entry, opened, op>>

\* The second writing thread.
mtvars == <<wpc, wframe, mt_frames>>

\* CameraApp.
appvars == <<async_recorder, is_running, hw_configured, apc, hw_calls,
             attempts, toggles, reads, orphans, ended>>

vars == <<ivars, mtvars, appvars>>

\* The fields of the instance the claims speak of.
fields == <<queue, writer, thread, is_recording, dropped_frames>>

\* ------------------------------------------------------------ queue.Queue
\* queue.Queue(maxsize): put and put_nowait find the queue full when it holds
\* maxsize items (maxsize > 0).
QueueFull_off_by_one(q) == Len(q) > queue_size

QueueFull(q) == Len(q) >= queue_size

\* queue.Queue.get: the oldest item, and the queue without it.
QueueGet_lifo(q) == <<q[Len(q)], SubSeq(q, 1, Len(q) - 1)>>

QueueGet(q) == <<Head(q), Tail(q)>>

\* ------------------------------------------------------------- __init__
Init ==
    /\ queue = <<>>
    /\ writer = None
    /\ thread = None
    /\ is_recording = FALSE
    /\ dropped_frames = 0
    /\ pc = "idle"
    /\ tpc = [t \in ThreadIds |-> "unborn"]
    /\ tframe = [t \in ThreadIds |-> None]
    /\ written = <<>>
    /\ released = {}
    /\ reports = <<>>
    /\ calls = 0
    /\ starts = 0
    /\ stops = 0
    /\ accepted = <<>>
    /\ submitted = 0
    /\ phase = "Idle"
    /\ stop_entry = [phase |-> "Idle", qlen |-> 0]
    /\ opened = {}
    /\ op = [name |-> "init", arg |-> "", ret |-> ""]
    /\ wpc = "idle"
    /\ wframe = None
    /\ mt_frames = {}
    /\ async_recorder = None
    /\ is_running = TRUE
    /\ hw_configured = FALSE
    /\ apc = "read"
    /\ hw_calls = 0
    /\ attempts = 0
    /\ toggles = 0
    /\ reads = 0
    /\ orphans = [alive |-> 0, recording |-> FALSE, unwritten |-> FALSE]
    /\ ended = ""

\* ---------------------------------------------------------------- start
\* What opening the sink can do: open, construct a writer that is not opened,
\* or raise.
Outcomes == {"ok", "notOpened", "raise"}

\* A start() whose isOpened() branch does not return.
start_falls_through(outcome) ==
    /\ pc = "idle"
    /\ starts' = starts + 1
    /\ writer' = IF outcome = "raise" THEN writer ELSE starts'
    /\ IF outcome = "raise"
       THEN /\ op' = [name |-> "start", arg |-> outcome, ret |-> "False"]
            /\ UNCHANGED <<is_recording, dropped_frames, thread, tpc, phase>>
       ELSE /\ is_recording' = TRUE
            /\ dropped_frames' = 0
            /\ thread' = starts'
            /\ tpc' = [tpc EXCEPT ![starts'] = "get"]
            /\ phase' = "Active"
            /\ op' = [name |-> "start", arg |-> outcome, ret |-> "True"]
    /\ opened' = IF outcome = "ok" THEN opened \cup {starts'} ELSE opened
    /\ UNCHANGED <<queue, pc, tframe, written, released, reports, calls, stops,
                   accepted, submitted, stop_entry>>

\* start(): the k-th call makes sink k and, when the sink opens, thread k.
start(outcome) ==
    /\ pc = "idle"
    /\ starts' = starts + 1
    /\ IF outcome = "ok"
       THEN /\ writer' = starts'
            /\ is_recording' = TRUE
            /\ dropped_frames' = 0
            /\ thread' = starts'
            /\ tpc' = [tpc EXCEPT ![starts'] = "get"]
            /\ phase' = "Active"
            /\ op' = [name |-> "start", arg |-> outcome, ret |-> "True"]
       ELSE /\ writer' = IF outcome = "notOpened" THEN None ELSE writer
            /\ op' = [name |-> "start", arg |-> outcome, ret |-> "False"]
            /\ UNCHANGED <<is_recording, dropped_frames, thread, tpc, phase>>
    /\ opened' = IF outcome = "ok" THEN opened \cup {starts'} ELSE opened
    /\ UNCHANGED <<queue, pc, tframe, written, released, reports, calls, stops,
                   accepted, submitted, stop_entry>>

\* start() as CameraApp calls it: on an instance just constructed.
start_fresh(outcome) ==
    /\ starts = 0
    /\ start(outcome)

\* start() on any instance.
start_any(outcome) ==
    /\ starts < MaxStarts
    /\ start(outcome)

\* ---------------------------------------------------------------- write
\* A write() without the is_recording check.
write_unchecked ==
    /\ pc = "idle"
    /\ calls < MaxFrames
    /\ calls' = calls + 1
    /\ submitted' = IF phase = "Active" THEN submitted + 1 ELSE submitted
    /\ IF QueueFull(queue)
       THEN /\ dropped_frames' = dropped_frames + 1
            /\ op' = [name |-> "write", arg |-> "frame", ret |-> "drop"]
            /\ UNCHANGED <<queue, accepted>>
       ELSE /\ queue' = Append(queue, calls')
            /\ accepted' = Append(accepted, calls')
            /\ op' = [name |-> "write", arg |-> "frame", ret |-> "put"]
            /\ UNCHANGED dropped_frames
    /\ UNCHANGED <<writer, thread, is_recording, pc, tpc, tframe, written,
                   released, reports, starts, stops, phase, stop_entry,
                   opened>>

\* A write() that uses put() where the code uses put_nowait().
write_blocking ==
    /\ pc = "idle"
    /\ calls < MaxFrames
    /\ is_recording => ~QueueFull(queue)
    /\ calls' = calls + 1
    /\ submitted' = IF phase = "Active" THEN submitted + 1 ELSE submitted
    /\ IF ~is_recording
       THEN /\ op' = [name |-> "write", arg |-> "frame", ret |-> "noop"]
            /\ UNCHANGED <<queue, accepted>>
       ELSE /\ queue' = Append(queue, calls')
            /\ accepted' = Append(accepted, calls')
            /\ op' = [name |-> "write", arg |-> "frame", ret |-> "put"]
    /\ UNCHANGED <<writer, thread, is_recording, dropped_frames, pc, tpc,
                   tframe, written, released, reports, starts, stops, phase,
                   stop_entry, opened>>

\* A write() that turns a frame away without counting it.
write_drop_uncounted ==
    /\ pc = "idle"
    /\ calls < MaxFrames
    /\ calls' = calls + 1
    /\ submitted' = IF phase = "Active" THEN submitted + 1 ELSE submitted
    /\ IF ~is_recording
       THEN /\ op' = [name |-> "write", arg |-> "frame", ret |-> "noop"]
            /\ UNCHANGED <<queue, accepted>>
       ELSE IF QueueFull(queue)
       THEN /\ op' = [name |-> "write", arg |-> "frame", ret |-> "drop"]
            /\ UNCHANGED <<queue, accepted>>
       ELSE /\ queue' = Append(queue, calls')
            /\ accepted' = Append(accepted, calls')
            /\ op' = [name |-> "write", arg |-> "frame", ret |-> "put"]
    /\ UNCHANGED <<writer, thread, is_recording, dropped_frames, pc, tpc,
                   tframe, written, released, reports, starts, stops, phase,
                   stop_entry, opened>>

\* write(frame): frame is the calls'-th frame passed to write().
write ==
    /\ pc = "idle"
    /\ calls < MaxFrames
    /\ calls' = calls + 1
    /\ submitted' = IF phase = "Active" THEN submitted + 1 ELSE submitted
    /\ IF ~is_recording
       THEN /\ op' = [name |-> "write", arg |-> "frame", ret |-> "noop"]
            /\ UNCHANGED <<queue, accepted, dropped_frames>>
       ELSE IF QueueFull(queue)
       THEN /\ dropped_frames' = dropped_frames + 1
            /\ op' = [name |-> "write", arg |-> "frame", ret |-> "drop"]
            /\ UNCHANGED <<queue, accepted>>
       ELSE /\ queue' = Append(queue, calls')
            /\ accepted' = Append(accepted, calls')
            /\ op' = [name |-> "write", arg |-> "frame", ret |-> "put"]
            /\ UNCHANGED dropped_frames
    /\ UNCHANGED <<writer, thread, is_recording, pc, tpc, tframe, written,
                   released, reports, starts, stops, phase, stop_entry,
                   opened>>

\* ----------------------------------------------------------------- stop
\* A stop() that signals the consumer without testing self.thread.
stop_always_signals ==
    /\ pc = "idle"
    /\ stops < MaxStops
    /\ stops' = stops + 1
    /\ is_recording' = FALSE
    /\ pc' = "stop_put"
    /\ stop_entry' = [phase |-> phase, qlen |-> Len(queue)]
    /\ phase' = IF phase = "Active" THEN "Draining" ELSE phase
    /\ op' = [name |-> "stop", arg |-> "", ret |-> ""]
    /\ UNCHANGED <<queue, writer, thread, dropped_frames, tpc, tframe, written,
                   released, reports, calls, starts, accepted, submitted,
                   opened>>

\* stop(), up to the test of self.thread.
stop ==
    /\ pc = "idle"
    /\ stops < MaxStops
    /\ stops' = stops + 1
    /\ is_recording' = FALSE
    /\ pc' = IF thread # None THEN "stop_put" ELSE "stop_release"
    /\ stop_entry' = [phase |-> phase, qlen |-> Len(queue)]
    /\ phase' = IF phase = "Active" THEN "Draining" ELSE phase
    /\ op' = [name |-> "stop", arg |-> "", ret |-> ""]
    /\ UNCHANGED <<queue, writer, thread, dropped_frames, tpc, tframe, written,
                   released, reports, calls, starts, accepted, submitted,
                   opened>>

\* A stop() that goes on to join() without putting the sentinel.
stop_put_forgets_marker ==
    /\ pc = "stop_put"
    /\ pc' = "stop_join"
    /\ op' = [name |-> "stop_put", arg |-> "", ret |-> ""]
    /\ UNCHANGED <<queue, writer, thread, is_recording, dropped_frames, tpc,
                   tframe, written, released, reports, calls, starts, stops,
                   accepted, submitted, phase, stop_entry, opened>>

\* A put(None) that does not wait for room.
stop_put_unbounded ==
    /\ pc = "stop_put"
    /\ queue' = Append(queue, None)
    /\ pc' = "stop_join"
    /\ op' = [name |-> "stop_put", arg |-> "", ret |-> ""]
    /\ UNCHANGED <<writer, thread, is_recording, dropped_frames, tpc, tframe,
                   written, released, reports, calls, starts, stops, accepted,
                   submitted, phase, stop_entry, opened>>

\* self.queue.put(None): blocks while the queue is full.
stop_put ==
    /\ pc = "stop_put"
    /\ ~QueueFull(queue)
    /\ queue' = Append(queue, None)
    /\ pc' = "stop_join"
    /\ op' = [name |-> "stop_put", arg |-> "", ret |-> ""]
    /\ UNCHANGED <<writer, thread, is_recording, dropped_frames, tpc, tframe,
                   written, released, reports, calls, starts, stops, accepted,
                   submitted, phase, stop_entry, opened>>

\* A join() that returns at once.
stop_join_nowait ==
    /\ pc = "stop_join"
    /\ thread' = None
    /\ pc' = "stop_release"
    /\ op' = [name |-> "stop_join", arg |-> "", ret |-> ""]
    /\ UNCHANGED <<queue, writer, is_recording, dropped_frames, tpc, tframe,
                   written, released, reports, calls, starts, stops, accepted,
                   submitted, phase, stop_entry, opened>>

\* self.thread.join(); self.thread = None: blocks until the thread has ended.
stop_join ==
    /\ pc = "stop_join"
    /\ tpc[thread] \in {"done", "crashed"}
    /\ thread' = None
    /\ pc' = "stop_release"
    /\ op' = [name |-> "stop_join", arg |-> "", ret |-> ""]
    /\ UNCHANGED <<queue, writer, is_recording, dropped_frames, tpc, tframe,
                   written, released, reports, calls, starts, stops, accepted,
                   submitted, phase, stop_entry, opened>>

\* The rest of stop(): release the sink, print the summary, return.
stop_release ==
    /\ pc = "stop_release"
    /\ released' = IF writer # None THEN released \cup {writer} ELSE released
    /\ writer' = None
    /\ reports' = Append(reports, dropped_frames)
    /\ pc' = "idle"
    /\ phase' = IF phase = "Draining" THEN "Closed" ELSE phase
    /\ op' = [name |-> "stop_release", arg |-> "", ret |-> "returned"]
    /\ UNCHANGED <<queue, thread, is_recording, dropped_frames, tpc, tframe,
                   written, calls, starts, stops, accepted, submitted,
                   stop_entry, opened>>

\* ------------------------------------------------------- _process_queue
\* frame = self.queue.get(): blocks while the queue is empty; on the sentinel
\* the loop breaks and the thread ends.
process_get(t) ==
    /\ tpc[t] = "get"
    /\ queue # <<>>
    /\ queue' = QueueGet(queue)[2]
    /\ tframe' = [tframe EXCEPT ![t] = QueueGet(queue)[1]]
    /\ tpc' = [tpc EXCEPT ![t] = IF QueueGet(queue)[1] = None THEN "done"
                                 ELSE "check"]
    /\ op' = [name |-> "get", arg |-> "", ret |-> ""]
    /\ UNCHANGED <<writer, thread, is_recording, dropped_frames, pc, written,
                   released, reports, calls, starts, stops, accepted,
                   submitted, phase, stop_entry, opened>>

\* if self.writer: the first read of self.writer.
process_check(t) ==
    /\ tpc[t] = "check"
    /\ tpc' = [tpc EXCEPT ![t] = IF writer # None THEN "write" ELSE "get"]
    /\ op' = [name |-> "check", arg |-> "", ret |-> ""]
    /\ UNCHANGED <<queue, writer, thread, is_recording, dropped_frames, pc,
                   tframe, written, released, reports, calls, starts, stops,
                   accepted, submitted, phase, stop_entry, opened>>

\* self.writer.write(frame): the second read of self.writer; on None the
\* attribute lookup raises and the thread dies.
process_write(t) ==
    /\ tpc[t] = "write"
    /\ IF writer # None
       THEN /\ written' = Append(written, tframe[t])
            /\ tpc' = [tpc EXCEPT ![t] = "get"]
       ELSE /\ tpc' = [tpc EXCEPT ![t] = "crashed"]
            /\ UNCHANGED written
    /\ op' = [name |-> "sink_write", arg |-> "", ret |-> ""]
    /\ UNCHANGED <<queue, writer, thread, is_recording, dropped_frames, pc,
                   tframe, released, reports, calls, starts, stops, accepted,
                   submitted, phase, stop_entry, opened>>

\* self.writer.write(frame) raises (cv2.error on a frame the encoder refuses):
\* nothing in _process_queue catches it, so the thread dies with the frame.
process_write_raises(t) ==
    /\ tpc[t] = "write"
    /\ writer # None
    /\ tpc' = [tpc EXCEPT ![t] = "crashed"]
    /\ op' = [name |-> "sink_raise", arg |-> "", ret |-> ""]
    /\ UNCHANGED <<queue, writer, thread, is_recording, dropped_frames, pc,
                   tframe, written, released, reports, calls, starts, stops,
                   accepted, submitted, phase, stop_entry, opened>>

process_queue(t) == process_get(t) \/ process_check(t) \/ process_write(t)

\* ------------------------------------- write() called on a second thread
\* write(frame) on a thread of its own, up to its test of is_recording.
mt_write_check ==
    /\ wpc = "idle"
    /\ calls < MaxFrames
    /\ calls' = calls + 1
    /\ mt_frames' = mt_frames \cup {calls'}
    /\ submitted' = IF phase = "Active" THEN submitted + 1 ELSE submitted
    /\ IF ~is_recording
       THEN /\ op' = [name |-> "mt_write", arg |-> "frame", ret |-> "noop"]
            /\ UNCHANGED <<wpc, wframe>>
       ELSE /\ wpc' = "put"
            /\ wframe' = calls'
            /\ op' = [name |-> "mt_write", arg |-> "frame", ret |-> ""]
    /\ UNCHANGED <<queue, accepted, dropped_frames, writer, thread,
                   is_recording, pc, tpc, tframe, written, released, reports,
                   starts, stops, phase, stop_entry, opened>>

\* The rest of that write(): put_nowait, or the drop.
mt_write_put ==
    /\ wpc = "put"
    /\ wpc' = "idle"
    /\ wframe' = None
    /\ IF QueueFull(queue)
       THEN /\ dropped_frames' = dropped_frames + 1
            /\ op' = [name |-> "mt_write", arg |-> "frame", ret |-> "drop"]
            /\ UNCHANGED <<queue, accepted>>
       ELSE /\ queue' = Append(queue, wframe)
            /\ accepted' = Append(accepted, wframe)
            /\ op' = [name |-> "mt_write", arg |-> "frame", ret |-> "put"]
            /\ UNCHANGED dropped_frames
    /\ UNCHANGED <<mt_frames, calls, submitted, writer, thread, is_recording,
                   pc, tpc, tframe, written, released, reports, starts, stops,
                   phase, stop_entry, opened>>

\* --------------------------------------------------------- specifications
Next ==
    \/ \E o \in Outcomes : start_fresh(o) /\ UNCHANGED <<mtvars, appvars>>
    \/ write /\ UNCHANGED <<mtvars, appvars>>
    \/ stop /\ UNCHANGED <<mtvars, appvars>>
    \/ stop_put /\ UNCHANGED <<mtvars, appvars>>
    \/ stop_join /\ UNCHANGED <<mtvars, appvars>>
    \/ stop_release /\ UNCHANGED <<mtvars, appvars>>
    \/ \E t \in ThreadIds : process_get(t) /\ UNCHANGED <<mtvars, appvars>>
    \/ \E t \in ThreadIds : process_check(t) /\ UNCHANGED <<mtvars, appvars>>
    \/ \E t \in ThreadIds : process_write(t) /\ UNCHANGED <<mtvars, appvars>>

Spec == Init /\ [][Next]_vars

\* The consumer thread is scheduled, its sink writes return, and the caller
\* inside stop() goes on when it can.
Fairness ==
    /\ \A t \in ThreadIds :
          WF_vars(process_queue(t) /\ UNCHANGED <<mtvars, appvars>>)
    /\ WF_vars(stop_put /\ UNCHANGED <<mtvars, appvars>>)
    /\ WF_vars(stop_join /\ UNCHANGED <<mtvars, appvars>>)
    /\ WF_vars(stop_release /\ UNCHANGED <<mtvars, appvars>>)

FairSpec == Spec /\ Fairness

NextAny ==
    \/ \E o \in Outcomes : start_any(o) /\ UNCHANGED <<mtvars, appvars>>
    \/ write /\ UNCHANGED <<mtvars, appvars>>
    \/ stop /\ UNCHANGED <<mtvars, appvars>>
    \/ stop_put /\ UNCHANGED <<mtvars, appvars>>
    \/ stop_join /\ UNCHANGED <<mtvars, appvars>>
    \/ stop_release /\ UNCHANGED <<mtvars, appvars>>
    \/ \E t \in ThreadIds : process_get(t) /\ UNCHANGED <<mtvars, appvars>>
    \/ \E t \in ThreadIds : process_check(t) /\ UNCHANGED <<mtvars, appvars>>
    \/ \E t \in ThreadIds : process_write(t) /\ UNCHANGED <<mtvars, appvars>>

SpecAny == Init /\ [][NextAny]_vars

\* Spec with sink writes that may raise.
NextWriteFail ==
    \/ \E o \in Outcomes : start_fresh(o) /\ UNCHANGED <<mtvars, appvars>>
    \/ write /\ UNCHANGED <<mtvars, appvars>>
    \/ stop /\ UNCHANGED <<mtvars, appvars>>
    \/ stop_put /\ UNCHANGED <<mtvars, appvars>>
    \/ stop_join /\ UNCHANGED <<mtvars, appvars>>
    \/ stop_release /\ UNCHANGED <<mtvars, appvars>>
    \/ \E t \in ThreadIds : process_get(t) /\ UNCHANGED <<mtvars, appvars>>
    \/ \E t \in ThreadIds : process_check(t) /\ UNCHANGED <<mtvars, appvars>>
    \/ \E t \in ThreadIds : process_write(t) /\ UNCHANGED <<mtvars, appvars>>
    \/ \E t \in ThreadIds : process_write_raises(t) /\ UNCHANGED <<mtvars, appvars>>

SpecWriteFail == Init /\ [][NextWriteFail]_vars

\* Spec with write() called on the caller's thread and on a second thread.
NextMT ==
    \/ \E o \in Outcomes : start_fresh(o) /\ UNCHANGED <<mtvars, appvars>>
    \/ write /\ UNCHANGED <<mtvars, appvars>>
    \/ stop /\ UNCHANGED <<mtvars, appvars>>
    \/ stop_put /\ UNCHANGED <<mtvars, appvars>>
    \/ stop_join /\ UNCHANGED <<mtvars, appvars>>
    \/ stop_release /\ UNCHANGED <<mtvars, appvars>>
    \/ \E t \in ThreadIds : process_get(t) /\ UNCHANGED <<mtvars, appvars>>
    \/ \E t \in ThreadIds : process_check(t) /\ UNCHANGED <<mtvars, appvars>>
    \/ \E t \in ThreadIds : process_write(t) /\ UNCHANGED <<mtvars, appvars>>
    \/ mt_write_check /\ UNCHANGED appvars
    \/ mt_write_put /\ UNCHANGED appvars

SpecMT == Init /\ [][NextMT]_vars

\* ------------------------------------------------------------- helpers
Alive == {t \in ThreadIds : tpc[t] \in {"get", "check", "write"}}

Frames(q) == SelectSeq(q, LAMBDA x : x # None)

StrictlyIncreasing(s) == \A i, j \in 1..Len(s) : i < j => s[i] < s[j]

TypeOK ==
    /\ writer \in 0..MaxStarts
    /\ thread \in 0..MaxStarts
    /\ is_recording \in BOOLEAN
    /\ dropped_frames \in 0..MaxFrames
    /\ pc \in {"idle", "stop_put", "stop_join", "stop_release"}
    /\ \A t \in ThreadIds : tpc[t] \in {"unborn", "get", "check", "write",
                                        "done", "crashed"}
    /\ phase \in {"Idle", "Active", "Draining", "Closed"}

\* ------------------------------------------------------------ CameraApp
\* The variables below model the writer self.async_recorder refers to; a new
\* AsyncVideoWriter(...) puts them back to their constructed values, and
\* orphans keeps what the writer they described still had.

\* while self.is_running: the flag is False, the loop ends.
app_loop_exit ==
    /\ apc = "read"
    /\ ~is_running
    /\ apc' = "cleanup"
    /\ ended' = "quit"
    /\ UNCHANGED <<ivars, mtvars, async_recorder, is_running, hw_configured,
                   hw_calls, attempts, toggles, reads, orphans>>

\* ret, frame = self.cap.read() with ret False: break.
app_read_lost ==
    /\ apc = "read"
    /\ is_running
    /\ apc' = "cleanup"
    /\ ended' = "lost"
    /\ UNCHANGED <<ivars, mtvars, async_recorder, is_running, hw_configured,
                   hw_calls, attempts, toggles, reads, orphans>>

\* ret, frame = self.cap.read() with a frame, and the test of hw_configured.
app_read ==
    /\ apc = "read"
    /\ is_running
    /\ reads < MaxReads
    /\ reads' = reads + 1
    /\ apc' = IF ~hw_configured THEN "apply" ELSE "offer"
    /\ UNCHANGED <<ivars, mtvars, async_recorder, is_running, hw_configured,
                   hw_calls, attempts, toggles, orphans, ended>>

\* self.apply_stream_active_controls() is called.
app_apply ==
    /\ apc = "apply"
    /\ hw_calls' = hw_calls + 1
    /\ apc' = "latch"
    /\ UNCHANGED <<ivars, mtvars, async_recorder, is_running, hw_configured,
                   attempts, toggles, reads, orphans, ended>>

\* A loop that calls apply_stream_active_controls without setting the latch.
app_latch_forgets ==
    /\ apc = "latch"
    /\ apc' = "offer"
    /\ UNCHANGED <<ivars, mtvars, async_recorder, is_running, hw_configured,
                   hw_calls, attempts, toggles, reads, orphans, ended>>

\* The call has returned: self.hw_configured = True.
app_latch ==
    /\ apc = "latch"
    /\ hw_configured' = TRUE
    /\ apc' = "offer"
    /\ UNCHANGED <<ivars, mtvars, async_recorder, is_running, hw_calls,
                   attempts, toggles, reads, orphans, ended>>

\* if self.async_recorder: self.async_recorder.write(frame); then the preview.
app_offer ==
    /\ apc = "offer"
    /\ IF async_recorder # None THEN write ELSE UNCHANGED ivars
    /\ apc' = "key"
    /\ UNCHANGED <<mtvars, async_recorder, is_running, hw_configured, hw_calls,
                   attempts, toggles, reads, orphans, ended>>

Keys == {"q", "v", "other"}

\* A toggle_recording that never takes its stop branch.
toggle_stops_never == FALSE

\* toggle_recording: if self.async_recorder and self.async_recorder.is_recording
toggle_stops == async_recorder # None /\ is_recording

\* k = cv2.waitKey(1) & 0xFF and the branch on k; for 'v', toggle_recording up
\* to its test.
app_key(k) ==
    /\ apc = "key"
    /\ k = "v" => toggles < MaxToggles
    /\ is_running' = IF k = "q" THEN FALSE ELSE is_running
    /\ toggles' = IF k = "v" THEN toggles + 1 ELSE toggles
    /\ apc' = IF k # "v" THEN "read"
              ELSE IF toggle_stops THEN "toggle_stop" ELSE "toggle_new"
    /\ UNCHANGED <<ivars, mtvars, async_recorder, hw_configured, hw_calls,
                   attempts, reads, orphans, ended>>

\* toggle_recording, stop branch: self.async_recorder.stop() is called.
app_toggle_stop ==
    /\ apc = "toggle_stop"
    /\ stop
    /\ apc' = "toggle_stopping"
    /\ UNCHANGED <<mtvars, async_recorder, is_running, hw_configured, hw_calls,
                   attempts, toggles, reads, orphans, ended>>

\* stop() has returned: self.async_recorder = None.
app_toggle_clear ==
    /\ apc = "toggle_stopping"
    /\ pc = "idle"
    /\ async_recorder' = None
    /\ apc' = "read"
    /\ UNCHANGED <<ivars, mtvars, is_running, hw_configured, hw_calls,
                   attempts, toggles, reads, orphans, ended>>

\* self.async_recorder = AsyncVideoWriter(...): the reference to the writer
\* so far is dropped, with whatever that writer still had.
NewWriter ==
    /\ orphans' = [alive |-> orphans.alive + Cardinality(Alive),
                   recording |-> orphans.recording \/ is_recording,
                   unwritten |-> orphans.unwritten \/ written # accepted]
    /\ async_recorder' = 1
    /\ queue' = <<>>
    /\ writer' = None
    /\ thread' = None
    /\ is_recording' = FALSE
    /\ dropped_frames' = 0
    /\ pc' = "idle"
    /\ tpc' = [t \in ThreadIds |-> "unborn"]
    /\ tframe' = [t \in ThreadIds |-> None]
    /\ written' = <<>>
    /\ released' = {}
    /\ reports' = <<>>
    /\ calls' = 0
    /\ starts' = 0
    /\ stops' = 0
    /\ accepted' = <<>>
    /\ submitted' = 0
    /\ phase' = "Idle"
    /\ stop_entry' = [phase |-> "Idle", qlen |-> 0]
    /\ opened' = {}
    /\ op' = [name |-> "new", arg |-> "", ret |-> ""]

\* toggle_recording, start branch: the writer for the first format.
app_toggle_new ==
    /\ apc = "toggle_new"
    /\ NewWriter
    /\ attempts' = 0
    /\ apc' = "start"
    /\ UNCHANGED <<mtvars, is_running, hw_configured, hw_calls, toggles, reads,
                   ended>>

\* toggle_recording, start branch: the writer for the fallback format.
app_fallback_new ==
    /\ apc = "fallback_new"
    /\ NewWriter
    /\ apc' = "start"
    /\ UNCHANGED <<mtvars, is_running, hw_configured, hw_calls, attempts,
                   toggles, reads, ended>>

\* A toggle_recording that goes on to the fallback whatever start() returned.
needs_fallback_always(ret) == TRUE

\* if not self.async_recorder.start():
needs_fallback(ret) == ret = "False"

\* self.async_recorder.start(): the first call's result is tested, the
\* second call's result is not.
app_start(outcome) ==
    /\ apc = "start"
    /\ start_fresh(outcome)
    /\ attempts' = attempts + 1
    /\ apc' = IF attempts = 0 /\ needs_fallback(op'.ret) THEN "fallback_new"
              ELSE "read"
    /\ UNCHANGED <<mtvars, async_recorder, is_running, hw_configured, hw_calls,
                   toggles, reads, orphans, ended>>

\* How far start() had come when a KeyboardInterrupt ended it: the sink
\* constructed, the flags set, or the Thread object made and not yet started.
StartPoints == {"open", "flags", "created"}

\* KeyboardInterrupt inside start(): except Exception does not catch it.
app_start_interrupted(point) ==
    /\ apc = "start"
    /\ starts = 0
    /\ pc = "idle"
    /\ starts' = starts + 1
    /\ attempts' = attempts + 1
    /\ writer' = starts'
    /\ opened' = opened \cup {starts'}
    /\ IF point = "open"
       THEN UNCHANGED <<is_recording, dropped_frames, phase>>
       ELSE /\ is_recording' = TRUE
            /\ dropped_frames' = 0
            /\ phase' = "Active"
    /\ thread' = IF point = "created" THEN starts' ELSE thread
    /\ op' = [name |-> "start", arg |-> point, ret |-> "interrupted"]
    /\ apc' = "cleanup"
    /\ ended' = "interrupt"
    /\ UNCHANGED <<queue, pc, tpc, tframe, written, released, reports, calls,
                   stops, accepted, submitted, stop_entry>>
    /\ UNCHANGED <<mtvars, async_recorder, is_running, hw_configured, hw_calls,
                   toggles, reads, orphans>>

\* The positions of the main thread inside the try block of run(), a start()
\* in progress apart.
InLoop == {"read", "apply", "latch", "offer", "key", "toggle_stop",
           "toggle_stopping", "toggle_new", "fallback_new"}

\* KeyboardInterrupt in the loop, a stop() in progress included: control
\* leaves whatever was running and goes to except / finally.
app_interrupt ==
    /\ apc \in InLoop
    /\ apc' = "cleanup"
    /\ ended' = "interrupt"
    /\ pc' = "idle"
    /\ op' = [name |-> "interrupt", arg |-> apc, ret |-> pc]
    /\ UNCHANGED <<queue, writer, thread, is_recording, dropped_frames, tpc,
                   tframe, written, released, reports, calls, starts, stops,
                   accepted, submitted, phase, stop_entry, opened>>
    /\ UNCHANGED <<mtvars, async_recorder, is_running, hw_configured, hw_calls,
                   attempts, toggles, reads, orphans>>

\* A cleanup() that does not stop the recorder.
app_cleanup_skips_stop ==
    /\ apc = "cleanup"
    /\ apc' = "exit"
    /\ UNCHANGED <<ivars, mtvars, async_recorder, is_running, hw_configured,
                   hw_calls, attempts, toggles, reads, orphans, ended>>

\* cleanup(): if self.async_recorder: self.async_recorder.stop() is called.
app_cleanup ==
    /\ apc = "cleanup"
    /\ IF async_recorder # None
       THEN /\ stop
            /\ apc' = "cleanup_stopping"
       ELSE /\ apc' = "exit"
            /\ UNCHANGED ivars
    /\ UNCHANGED <<mtvars, async_recorder, is_running, hw_configured, hw_calls,
                   attempts, toggles, reads, orphans, ended>>

\* stop() has returned: the rest of cleanup().
app_cleanup_done ==
    /\ apc = "cleanup_stopping"
    /\ pc = "idle"
    /\ apc' = "exit"
    /\ UNCHANGED <<ivars, mtvars, async_recorder, is_running, hw_configured,
                   hw_calls, attempts, toggles, reads, orphans, ended>>

\* self.thread.join() on a Thread that was never started raises RuntimeError,
\* which leaves stop() and cleanup().
app_cleanup_join_raises ==
    /\ apc = "cleanup_stopping"
    /\ pc = "stop_join"
    /\ tpc[thread] = "unborn"
    /\ apc' = "exit"
    /\ pc' = "idle"
    /\ op' = [name |-> "stop_join", arg |-> "", ret |-> "RuntimeError"]
    /\ UNCHANGED <<queue, writer, thread, is_recording, dropped_frames, tpc,
                   tframe, written, released, reports, calls, starts, stops,
                   accepted, submitted, phase, stop_entry, opened>>
    /\ UNCHANGED <<mtvars, async_recorder, is_running, hw_configured, hw_calls,
                   attempts, toggles, reads, orphans, ended>>

\* run() of CameraApp with the writer's steps and the consumer thread.
NextApp ==
    \/ app_loop_exit
    \/ app_read_lost
    \/ app_read
    \/ app_apply
    \/ app_latch
    \/ app_offer
    \/ \E k \in Keys : app_key(k)
    \/ app_toggle_stop
    \/ app_toggle_clear
    \/ app_toggle_new
    \/ app_fallback_new
    \/ \E o \in Outcomes : app_start(o)
    \/ \E p \in StartPoints : app_start_interrupted(p)
    \/ app_interrupt
    \/ app_cleanup
    \/ app_cleanup_done
    \/ app_cleanup_join_raises
    \/ stop_put /\ UNCHANGED <<mtvars, appvars>>
    \/ stop_join /\ UNCHANGED <<mtvars, appvars>>
    \/ stop_release /\ UNCHANGED <<mtvars, appvars>>
    \/ \E t \in ThreadIds : process_get(t) /\ UNCHANGED <<mtvars, appvars>>
    \/ \E t \in ThreadIds : process_check(t) /\ UNCHANGED <<mtvars, appvars>>
    \/ \E t \in ThreadIds : process_write(t) /\ UNCHANGED <<mtvars, appvars>>

SpecApp == Init /\ [][NextApp]_vars

\* The consumer thread is scheduled, and the main thread goes on through
\* cleanup() and the stop() it calls.
FairnessApp ==
    /\ Fairness
    /\ WF_vars(app_cleanup)
    /\ WF_vars(app_cleanup_done)
    /\ WF_vars(app_cleanup_join_raises)

FairSpecApp == SpecApp /\ FairnessApp

\* ----------------------------------------------------------------- claims
Range(s) == {s[i] : i \in 1..Len(s)}

\* The consumer has taken nothing yet: all that was accepted is still queued.
ConsumerPaused == Len(queue) = Len(accepted)

\* C1 (Ordering): the frames handed to the sink are frames write() accepted,
\* in the order they were submitted: none reordered, none written twice.
C1_Ordering ==
    /\ StrictlyIncreasing(written)
    /\ Range(written) \subseteq Range(accepted)
    /\ Range(accepted) \subseteq 1..calls

\* Frames were written around a dropped one.
C1_Witness ==
    /\ Len(written) >= 3
    /\ \E i \in 1..(Len(written) - 1) : written[i + 1] > written[i] + 1

\* C2 (Drain guarantee): once a stop() called on a recording writer has
\* returned, every frame accepted into the queue has been written; with at
\* most queue_size frames submitted all of them are written and none dropped.
C2_DrainGuarantee ==
    phase = "Closed" =>
        /\ written = accepted
        /\ Frames(queue) = <<>>
        /\ submitted <= queue_size =>
               Len(written) = submitted /\ dropped_frames = 0

\* stop() has just returned after draining a full queue's worth of frames.
C2_Witness ==
    /\ phase = "Closed"
    /\ op.name = "stop_release"
    /\ submitted = queue_size
    /\ Len(written) = queue_size

\* C3 (Boundedness): the queue never holds more than queue_size frames.
C3_Boundedness == Len(Frames(queue)) <= queue_size

\* The queue is at capacity and a frame has been turned away.
C3_Witness ==
    /\ Len(Frames(queue)) = queue_size
    /\ dropped_frames >= 1

\* C4 (Overflow handling): write() on a recording writer can always be taken
\* by an idle caller and returns at once; on a queue holding queue_size
\* frames it leaves the queue alone and counts one drop, otherwise it appends
\* the frame and leaves the counter alone. queue_size + 1 submissions with
\* the consumer paused give exactly one drop.
C4_OverflowHandling ==
    /\ [](pc = "idle" /\ calls < MaxFrames => ENABLED write)
    /\ [][(calls' = calls + 1 /\ is_recording) =>
            /\ pc' = "idle"
            /\ IF Len(Frames(queue)) = queue_size
               THEN queue' = queue /\ dropped_frames' = dropped_frames + 1
               ELSE /\ queue' = Append(queue, calls')
                    /\ dropped_frames' = dropped_frames]_vars
    /\ [](is_recording /\ ConsumerPaused /\ submitted = queue_size + 1
            => dropped_frames = 1)

\* queue_size + 1 frames went in with the consumer paused; the last dropped.
C4_Witness ==
    /\ is_recording
    /\ ConsumerPaused
    /\ submitted = queue_size + 1
    /\ op.ret = "drop"
    /\ dropped_frames = 1

\* C5 (No-accept-after-stop): a write() after stop() enqueues nothing and
\* counts no drop, nothing is written once stop() has returned, and then
\* written + dropped equals the frames submitted between start and stop.
C5_NoAcceptAfterStop ==
    /\ [][(calls' = calls + 1 /\ phase \in {"Draining", "Closed"}) =>
            UNCHANGED <<queue, accepted, dropped_frames>>]_vars
    /\ [][phase = "Closed" => UNCHANGED <<written, dropped_frames>>]_vars
    /\ [](phase = "Closed" => Len(written) + dropped_frames = submitted)

\* A write() after a stop() that drained frames and had counted a drop.
C5_Witness ==
    /\ phase = "Closed"
    /\ op.name = "write"
    /\ calls > submitted
    /\ dropped_frames >= 1
    /\ Len(written) >= 1

\* C6 (Start failure): a start() whose sink does not open returns False,
\* leaves is_recording False and creates no thread; while no start() has
\* opened a sink the writer records nothing, whatever is written to it.
C6_StartFailure ==
    /\ [][(starts' = starts + 1 /\ op'.arg # "ok") =>
            /\ op'.ret = "False"
            /\ is_recording' = FALSE
            /\ thread' = None
            /\ tpc' = tpc]_vars
    /\ [](opened = {} =>
            /\ ~is_recording
            /\ thread = None
            /\ Alive = {}
            /\ queue = <<>>
            /\ accepted = <<>>
            /\ dropped_frames = 0)

\* A write() on a writer whose start() failed.
C6_Witness ==
    /\ starts = 1
    /\ opened = {}
    /\ op.name = "write"
    /\ op.ret = "noop"

\* A step of the caller inside stop().
StopStep == op'.name \in {"stop", "stop_put", "stop_join", "stop_release"}

\* C7 (Stop terminates): with the consumer fairly scheduled, a stop() called
\* on a recording writer returns, whatever the queue held at the call; on
\* return the consumer thread has ended, the sink is released, and thread
\* and writer are None.
C7_StopTerminates ==
    /\ \A k \in 0..queue_size :
          (pc # "idle" /\ stop_entry.phase = "Active" /\ stop_entry.qlen = k)
              ~> (pc = "idle" /\ phase = "Closed" /\ stop_entry.qlen = k)
    /\ [](pc = "idle" /\ phase = "Closed" =>
            /\ thread = None
            /\ writer = None
            /\ Alive = {}
            /\ \A t \in opened : tpc[t] = "done" /\ t \in released)

\* stop() was called on a full queue and has returned.
C7_Witness ==
    /\ op.name = "stop_release"
    /\ phase = "Closed"
    /\ stop_entry.qlen = queue_size
    /\ released # {}

C9_SecondStopNoOp ==
    [][(phase = "Closed" /\ StopStep) =>
         /\ UNCHANGED <<fields, reports>>
         /\ pc' \in {"idle", "stop_release"}]_vars

\* C10: at most one consumer thread of the instance is alive.
C10_OneConsumerThread == Cardinality(Alive) <= 1

\* C11: Closed is terminal: once a stop() on a recording writer has returned,
\* no later call makes the instance recording again, gives it a thread or
\* opens a sink for it.
C11_ClosedIsTerminal ==
    [][phase = "Closed" =>
         /\ phase' = "Closed"
         /\ is_recording' = FALSE
         /\ thread' = None
         /\ writer' = None
         /\ Alive' = {}]_vars

\* C12 (Sink exclusion): stop() releases the sink only when every consumer
\* thread that was started has ended, so no thread is between taking a frame
\* and writing it while the sink is released; every frame is written to a
\* sink that is set and not released, and nothing is written once the sink
\* has been released.
C12_SinkExclusion ==
    /\ [][released' # released =>
            /\ Alive = {}
            /\ \A t \in opened : tpc[t] = "done"
            /\ thread = None]_vars
    /\ [][written' # written => (writer # None /\ writer \notin released)]_vars
    /\ [][released # {} => written' = written]_vars

\* stop() has released a sink that frames were written to.
C12_Witness ==
    /\ op.name = "stop_release"
    /\ released # {}
    /\ Len(written) >= 2

\* C14 (Dropped-frame counter): dropped_frames is 0 right after a successful
\* start(), does not decrease while the writer is recording, does not change
\* once stop() has been called, and the count stop() prints is the number of
\* frames a full queue turned away since start().
C14_DroppedCounter ==
    /\ [][(op'.name = "start" /\ op'.ret = "True" /\ starts' = starts + 1) =>
            dropped_frames' = 0]_vars
    /\ [][(phase = "Active" /\ phase' = "Active") =>
            dropped_frames' >= dropped_frames]_vars
    /\ [][(phase \in {"Draining", "Closed"}) =>
            (dropped_frames' = dropped_frames)]_vars
    /\ []((phase = "Closed" /\ reports # <<>>) =>
            reports[Len(reports)] = submitted - Len(accepted))

\* A write() after a stop() whose summary counted dropped frames.
C14_Witness ==
    /\ phase = "Closed"
    /\ op.name = "write"
    /\ reports # <<>>
    /\ reports[Len(reports)] >= 1
    /\ reports[Len(reports)] = dropped_frames

\* C19: stop() on a writer none of whose start() calls opened a sink does not
\* wait and puts no sentinel: every step of it leaves queue, thread, writer
\* and dropped_frames as they were, with the queue empty, thread and writer
\* None and is_recording False.
C19_StopOnIdleWriter ==
    /\ [][(opened = {} /\ StopStep) =>
            /\ UNCHANGED <<queue, thread, writer, dropped_frames>>
            /\ is_recording' = FALSE
            /\ pc' \in {"idle", "stop_release"}]_vars
    /\ [](opened = {} =>
            (queue = <<>> /\ thread = None /\ writer = None /\ ~is_recording))

\* stop() has returned on a writer whose start() had failed.
C19_Witness ==
    /\ opened = {}
    /\ starts = 1
    /\ op.name = "stop_release"
    /\ pc = "idle"

\* C13: a sink write that fails does not break the drain: a stop() waiting
\* to put the sentinel on a full queue still has a consumer thread that makes
\* room, and when stop() has returned no frame is left in the queue.
C13_WriteFailureKeepsDrain ==
    /\ (pc = "stop_put" /\ QueueFull(queue)) => Alive # {}
    /\ (pc = "idle" /\ phase = "Closed") => Frames(queue) = <<>>

\* Some consumer thread has taken the sentinel.
MarkerConsumed == \E t \in ThreadIds : tpc[t] = "done"

\* The frames queued behind a sentinel.
BehindMarker ==
    {queue[j] : j \in {k \in 1..Len(queue) :
                         queue[k] # None /\ \E i \in 1..(k - 1) : queue[i] = None}}

\* C17 as claimed: no frame is ever queued behind the sentinel or left in
\* the queue once the consumer has taken it, write() on a second thread
\* included.
C17_MarkerIsLast ==
    /\ BehindMarker = {}
    /\ MarkerConsumed => Frames(queue) = <<>>

\* C17 (amended): a frame queued behind the sentinel, or left in the queue
\* once the consumer has taken it, is always one passed to a write() running
\* on another thread than stop(), never one passed by the thread that
\* called stop().
C17_MarkerIsLastForCaller ==
    /\ BehindMarker \subseteq mt_frames
    /\ MarkerConsumed => Range(Frames(queue)) \subseteq mt_frames

\* The thread that called stop() writes after the sentinel was consumed:
\* its earlier frames were drained, its new one is not queued, and the queue
\* holds a frame that the other thread put behind the sentinel.
C17_Witness ==
    /\ MarkerConsumed
    /\ op.name = "write"
    /\ op.ret = "noop"
    /\ Range(written) \ mt_frames # {}
    /\ Frames(queue) # <<>>

\* C15 (Codec fallback): a start request makes at most two start() calls,
\* each on a writer of its own that is started once; the second is made only
\* after the first returned False; and when both have returned False no
\* writer is recording and no consumer thread exists.
C15_CodecFallback ==
    /\ attempts <= 2
    /\ starts <= 1
    /\ apc = "start" => starts = 0 /\ attempts <= 1 /\ thread = None
    /\ apc = "fallback_new" =>
           /\ attempts = 1
           /\ op.name = "start" /\ op.ret = "False"
    /\ (attempts = 2 /\ op.name = "start" /\ op.ret = "False") =>
           /\ ~is_recording
           /\ thread = None
           /\ Alive = {}
           /\ orphans.alive = 0
           /\ ~orphans.recording

\* Both start() calls of one request have returned False.
C15_Witness ==
    /\ attempts = 2
    /\ op.name = "start"
    /\ op.ret = "False"
    /\ apc = "read"

\* C18 (One-shot hardware configuration latch): apply_stream_active_controls
\* is called at most once in a run, in the iteration of the first frame read
\* and before any frame is offered to a recorder; hw_configured starts False,
\* is set as soon as the call has returned, and never goes back to False.
C18_HwLatch ==
    /\ ~hw_configured
    /\ [](/\ hw_calls <= 1
          /\ hw_configured => hw_calls = 1
          /\ (hw_calls = 1 /\ ~hw_configured) =>
                 (apc = "latch" \/ ended = "interrupt"))
    /\ [][(hw_calls' # hw_calls) =>
             (/\ reads = 1
              /\ ~hw_configured
              /\ toggles = 0
              /\ async_recorder = None
              /\ calls = 0)]_vars
    /\ [][hw_configured => hw_configured']_vars

\* A later frame is being offered to a recorder with the latch set by the one
\* call made at the first frame.
C18_Witness ==
    /\ hw_configured
    /\ hw_calls = 1
    /\ reads >= 3
    /\ op.name = "write"
    /\ op.ret = "put"

\* C20 (No orphaned writer): in a run of CameraApp at most one consumer thread
\* is alive at any time, no reference to a writer is replaced while that
\* writer is recording or its thread is alive, and the reference is cleared
\* only once stop() has ended the recording and the thread.
C20_NoOrphanedWriter ==
    /\ Cardinality(Alive) + orphans.alive <= 1
    /\ orphans.alive = 0
    /\ ~orphans.recording
    /\ async_recorder = None => ~is_recording /\ thread = None /\ Alive = {}

\* A second recording is running after the first one was stopped and its
\* writer replaced.
C20_Witness ==
    /\ toggles = 3
    /\ is_recording
    /\ Alive # {}
    /\ op.name = "write"
    /\ op.ret = "put"

\* C16 (Shutdown finalization): however the capture loop ends, cleanup() runs
\* to its end; a writer that is recording then is the one cleanup() calls
\* stop() on; and when cleanup() has ended no writer is recording, no consumer
\* thread is alive and every frame a writer accepted has been written.
C16_ShutdownFinalization ==
    /\ []((apc = "cleanup" /\ is_recording) => async_recorder # None)
    /\ (apc = "cleanup") ~> (apc = "exit")
    /\ [](apc = "exit" =>
             /\ ended \in {"quit", "lost", "interrupt"}
             /\ async_recorder # None => stops >= 1
             /\ ~is_recording
             /\ Alive = {}
             /\ orphans.alive = 0
             /\ ~orphans.recording
             /\ written = accepted
             /\ ~orphans.unwritten)

\* The stream was lost during a recording with frames still queued, and
\* cleanup() has ended with all of them written.
C16_Witness ==
    /\ apc = "exit"
    /\ ended = "lost"
    /\ async_recorder # None
    /\ stop_entry.phase = "Active"
    /\ stop_entry.qlen = queue_size
    /\ Len(written) >= queue_size

\* A KeyboardInterrupt left the stop() that toggle_recording had called, and
\* cleanup() has called stop() a second time and ended.
C16_InterruptedStop ==
    /\ apc = "exit"
    /\ ended = "interrupt"
    /\ stops = 2
    /\ written # <<>>

====
